---- MODULE Spec2Model ----
(***************************************************************************)
(* A model of the PDF crawler of crawler/crawler.py: the breadth-first     *)
(* crawl loop of crawl_and_download, the three link extractors, the three  *)
(* downloaders with the collision-safe target path, the PDF validator and  *)
(* the progress sink.                                                      *)
(*                                                                         *)
(* Strings are modelled structurally.  A URL is a record of the parts that *)
(* urlparse yields and that the code inspects (scheme, host, port, the     *)
(* directory, stem and extension of the path, one query parameter).  A     *)
(* byte string is a sequence of one-character strings.                     *)
(***************************************************************************)
EXTENDS Integers, Sequences, FiniteSets, TLC

\* ------------------------------------------------------------------ bounds

\* Largest value tried for max_pages and max_pdfs.
MaxLimit == 2
\* Most <a href> elements on one page.
MaxAnchors == 2
\* Most elements carrying an onclick attribute on one page.
MaxOnclick == 1

\* max_pages / max_pdfs left at their default None.
NoLimit == -1

\* ------------------------------------------------------------ byte strings

PDF_SIG == <<"%", "P", "D", "F", "-">>
EOF_MARK == <<"%", "%", "E", "O", "F">>
HTML_TAG == <<"<", "h", "t", "m", "l">>
\* content[-1024:]
TailWindow == 1024
\* response.content[:200]
HeadWindow == 200

\* (a variant that finds the last occurrence)
FindLast(content, pattern) ==
  LET n == Len(content)
      m == Len(pattern)
      hits == {i \in 0..(n - m) : SubSeq(content, i + 1, i + m) = pattern}
  IN IF n < m \/ hits = {} THEN -1
     ELSE CHOOSE i \in hits : \A j \in hits : i >= j

\* bytes.find(pattern): the least 0-based offset of pattern, or -1.
Find(content, pattern) ==
  LET n == Len(content)
      m == Len(pattern)
      hits == {i \in 0..(n - m) : SubSeq(content, i + 1, i + m) = pattern}
  IN IF n < m \/ hits = {} THEN -1
     ELSE CHOOSE i \in hits : \A j \in hits : i <= j

StartsWith(content, pattern) ==
  /\ Len(content) >= Len(pattern)
  /\ SubSeq(content, 1, Len(pattern)) = pattern

\* (a variant that looks at the whole content)
LastBytesWhole(content, k) == content

\* content[-k:]
LastBytes(content, k) ==
  IF Len(content) <= k THEN content
  ELSE SubSeq(content, Len(content) - k + 1, Len(content))

\* content[:k]
FirstBytes(content, k) ==
  IF Len(content) <= k THEN content ELSE SubSeq(content, 1, k)

NoBytes == <<"None">>

\* _is_valid_pdf(content)
_is_valid_pdf(content) ==
  IF content = <<>> \/ Len(content) < 5 THEN FALSE
  ELSE StartsWith(content, PDF_SIG) /\ Find(LastBytes(content, TailWindow), EOF_MARK) # -1

\* (a variant that returns what follows the signature)
ExtractAfterSignature(content) ==
  IF Find(content, PDF_SIG) = -1 THEN NoBytes
  ELSE SubSeq(content, Find(content, PDF_SIG) + Len(PDF_SIG) + 1, Len(content))

\* _extract_pdf_from_response(content): the suffix from the signature on, or None.
_extract_pdf_from_response(content) ==
  IF content = <<>> THEN NoBytes
  ELSE LET pdf_start == Find(content, PDF_SIG)
       IN IF pdf_start = -1 THEN NoBytes
          ELSE SubSeq(content, pdf_start + 1, Len(content))

\* ------------------------------------------------------------------- URLs

U(scheme, host, port, dir, base, ext, qkey, qval) ==
  [scheme |-> scheme, host |-> host, port |-> port, dir |-> dir,
   base |-> base, ext |-> ext, qkey |-> qkey, qval |-> qval]

NoUrl == U("", "", "", "", "", "", "", "")

\* str.lower() on the host names of the model.
Lower(h) == IF h = "A.com" THEN "a.com" ELSE h

\* A netloc string "host" or "host:port".
NetLoc(host, port) == [host |-> host, port |-> port]

\* urlparse(url).netloc and .hostname (hostname is lower-cased, port dropped).
NetlocOf(u) == NetLoc(u.host, u.port)
HostnameOf(u) == NetLoc(Lower(u.host), "")

\* netloc.lower()
LowerNetloc(n) == NetLoc(Lower(n.host), n.port)

\* The set `allowed` built from allowed_hosts.
NormalizeAllowed(allowed_hosts) ==
  {LowerNetloc(h) : h \in allowed_hosts}
    \cup {NetLoc(Lower(h.host), "") : h \in {x \in allowed_hosts : x.port # ""}}

\* _is_allowed_host(parsed, allowed)
_is_allowed_host(parsed, allowed_set) ==
  LET netloc == LowerNetloc(NetlocOf(parsed))
      hostname == HostnameOf(parsed)
  IN netloc \in allowed_set \/ hostname \in allowed_set

\* str.endswith('.pdf') on a query value or a path.
EndsPdf(s) == s = "a.pdf" \/ s = "b.pdf"

\* href.lower().endswith('.pdf'): the href string ends with its query if it has one.
HrefEndsPdf(u) == IF u.qkey # "" THEN EndsPdf(u.qval) ELSE u.ext = ".pdf"

\* parsed.path.lower().endswith('.pdf')
PathEndsPdf(u) == u.ext = ".pdf"

\* 'watermark' in href_lower and 'download.php' in href_lower
HrefIsWatermark(u) ==
  /\ u.dir = "watermark" \/ u.qval = "watermark"
  /\ u.base = "download" /\ u.ext = ".php"

\* 'watermark' in parsed.path.lower() and 'download.php' in parsed.path.lower()
PathIsWatermark(u) == u.dir = "watermark" /\ u.base = "download" /\ u.ext = ".php"

\* any(pattern in href_lower for pattern in ['getpdf', 'showpdf', 'viewpdf', 'downloadpdf'])
HrefIsOtherWatermark(u) == u.base \in {"getpdf", "showpdf", "viewpdf", "downloadpdf"}

skip_ext == {".jpg", ".jpeg", ".png", ".gif", ".css", ".js", ".ico", ".svg",
             ".woff", ".ttf", ".mp4", ".mp3"}

\* ------------------------------------------------------------- extractors

Range(s) == {s[i] : i \in 1..Len(s)}

\* The `seen` set of the extractors: keep the first occurrence of each element.
Dedupe(s) ==
  LET F[i \in 0..Len(s)] ==
        IF i = 0 THEN <<>>
        ELSE IF \E j \in 1..(i - 1) : s[j] = s[i] THEN F[i - 1]
             ELSE Append(F[i - 1], s[i])
  IN F[Len(s)]

IsWatermarkHref(u) == HrefIsWatermark(u) \/ HrefIsOtherWatermark(u)

\* A parsed page: the first string argument of each matching onclick call, in
\* document order, and the href of each <a href>, resolved against the page.
_extract_onclick_pdfs(soup) == Dedupe(soup.onclicks)

_extract_watermark_hrefs(soup) == Dedupe(SelectSeq(soup.anchors, IsWatermarkHref))

_extract_regular_pdf_links(soup) == Dedupe(SelectSeq(soup.anchors, HrefEndsPdf))

\* ------------------------------------------------------------- file names

NoPath == [stem |-> "", md5 |-> NoUrl, sha |-> NoUrl, ext |-> ""]

\* A file name: stem and suffix as os.path.splitext gives them.  md5 is the URL
\* whose md5 digest is part of the stem, sha the reference whose sha1 digest
\* _unique_target_path appended (digests are taken to be collision-free).
FileName(stem, ext) == [stem |-> stem, md5 |-> NoUrl, sha |-> NoUrl, ext |-> ext]

\* os.path.basename(path) or "downloaded.pdf"
BaseName(u) ==
  IF u.base = "" /\ u.ext = "" THEN FileName("downloaded", ".pdf")
  ELSE FileName(u.base, u.ext)

\* _sanitize_filename on the names of the model: a trailing .pdf is stripped
\* and .pdf is appended again.
StripPdf(s) == IF s = "a.pdf" THEN "a" ELSE IF s = "b.pdf" THEN "b" ELSE s

_sanitize_filename(name) == FileName(StripPdf(name), ".pdf")

name_keys == {"show", "file", "document", "pdf", "name", "title"}

\* _extract_pdf_name_from_url(url)
_extract_pdf_name_from_url(url) ==
  IF url.qkey \in name_keys /\ url.qval # "" THEN _sanitize_filename(url.qval)
  ELSE [stem |-> "watermark", md5 |-> url, sha |-> NoUrl, ext |-> ".pdf"]

\* The download folder: the files in it, each with the reference it was written
\* for and the downloader that wrote it.
Exists(fs, path) == \E f \in fs : f.path = path

WriteFile(fs, path, ref, method) ==
  {f \in fs : f.path # path} \cup {[path |-> path, ref |-> ref, method |-> method]}

\* (a variant that uses the candidate whether it exists or not)
UniqueTargetPathNoCheck(fs, pdf_name, url) == pdf_name

\* _unique_target_path(folder, pdf_name, url)
_unique_target_path(fs, pdf_name, url) ==
  IF ~Exists(fs, pdf_name) THEN pdf_name
  ELSE [pdf_name EXCEPT !.sha = url,
                        !.ext = IF pdf_name.ext = "" THEN ".pdf" ELSE pdf_name.ext]

\* ------------------------------------------------------------ downloaders

\* What _get_with_ssl_fallback hands back: status 0 stands for None (no
\* response), otherwise the status code, the Content-Type, the body and the
\* file name of the Content-Disposition header ("" when there is none).
Response(status, ctype, content, cd) ==
  [status |-> status, ctype |-> ctype, content |-> content, cd |-> cd]

NoResponse == Response(0, "", <<>>, "")

NoInfo == [url |-> NoUrl, path |-> NoPath, filename |-> NoPath, downloaded_at |-> ""]

Info(url, target_path, stamp) ==
  [url |-> url, path |-> target_path, filename |-> target_path, downloaded_at |-> stamp]

\* The outcome of one downloader call: whether it issued a GET and to which
\* URL, the record it returned (NoInfo for None) and the path it wrote
\* (NoPath when it wrote nothing).
Outcome(requested, request_url, info, wrote) ==
  [requested |-> requested, request_url |-> request_url, info |-> info, wrote |-> wrote]

\* (a variant that writes whatever a 200 response carries)
AcceptedNoValidation(response) == response.status = 200

\* pdf_content = _extract_pdf_from_response(response.content)
\* if not pdf_content or not _is_valid_pdf(pdf_content): return None
Accepted(response) ==
  /\ response.status = 200
  /\ LET pdf_content == _extract_pdf_from_response(response.content)
     IN pdf_content # NoBytes /\ pdf_content # <<>> /\ _is_valid_pdf(pdf_content)

\* quote(file_name, safe='') of the path without a leading "pdf/" and a trailing
\* ".pdf", for the onclick paths of the model.
ShowName(pdf_path) ==
  IF pdf_path.dir = "pdf" \/ pdf_path.dir = "" THEN pdf_path.base
  ELSE IF pdf_path.dir = "Policy" /\ pdf_path.base = "a" THEN "Policy%2Fa"
  ELSE "other"

\* The GET URL the onclick downloader builds:
\* {scheme}://{netloc}/watermark/download.php?show={encoded_name}
OnclickUrl(pdf_path, base_url) ==
  U(base_url.scheme, base_url.host, base_url.port, "watermark", "download", ".php",
    "show", ShowName(pdf_path))

download_onclick_watermark(pdf_path, fs, base_url, response) ==
  LET pdf_name == BaseName(pdf_path)
      target_path == _unique_target_path(fs, pdf_name, pdf_path)
      watermark_url == OnclickUrl(pdf_path, base_url)
  IN IF Exists(fs, target_path)
       THEN Outcome(FALSE, NoUrl, Info(pdf_path, target_path, "mtime"), NoPath)
     ELSE IF ~Accepted(response)
       THEN Outcome(TRUE, watermark_url, NoInfo, NoPath)
     ELSE Outcome(TRUE, watermark_url, Info(pdf_path, target_path, "now"), target_path)

\* 'text/html' in content_type and 'application/pdf' not in content_type, and
\* b'<html' in response.content[:200].lower()
IsHtmlError(response) ==
  /\ response.ctype = "text/html"
  /\ Find(FirstBytes(response.content, HeadWindow), HTML_TAG) # -1

download_watermark_href(watermark_url, fs, referer, response) ==
  LET pdf_name == _extract_pdf_name_from_url(watermark_url)
      target_path == _unique_target_path(fs, pdf_name, watermark_url)
      better_path ==
        IF response.cd # "" /\ EndsPdf(response.cd)
          THEN _unique_target_path(fs, _sanitize_filename(response.cd), watermark_url)
        ELSE target_path
  IN IF Exists(fs, target_path)
       THEN Outcome(FALSE, NoUrl, Info(watermark_url, target_path, "mtime"), NoPath)
     ELSE IF response.status # 200 \/ IsHtmlError(response) \/ ~Accepted(response)
       THEN Outcome(TRUE, watermark_url, NoInfo, NoPath)
     ELSE Outcome(TRUE, watermark_url, Info(watermark_url, better_path, "now"), better_path)

download_direct_pdf(pdf_url, fs, referer, response) ==
  LET pdf_name == BaseName(pdf_url)
      target_path == _unique_target_path(fs, pdf_name, pdf_url)
  IN IF Exists(fs, target_path)
       THEN Outcome(FALSE, NoUrl, Info(pdf_url, target_path, "mtime"), NoPath)
     ELSE IF ~Accepted(response)
       THEN Outcome(TRUE, pdf_url, NoInfo, NoPath)
     ELSE Outcome(TRUE, pdf_url, Info(pdf_url, target_path, "now"), target_path)

\* The downloader that matches a discovery method.
Download(method, ref, fs, page, response) ==
  IF method = "onclick" THEN download_onclick_watermark(ref, fs, page, response)
  ELSE IF method = "watermark_href" THEN download_watermark_href(ref, fs, page, response)
  ELSE download_direct_pdf(ref, fs, page, response)

\* ------------------------------------------------------- the model's world

Page(host, port, base) == U("http", host, port, "", base, "", "", "")

StartUrl == Page("a.com", "", "index")
P1 == Page("a.com", "", "p1")
P2 == Page("b.com", "", "p2")
D1 == U("http", "a.com", "", "docs", "a", ".pdf", "", "")
D2 == U("http", "b.com", "", "files", "a", ".pdf", "", "")
W1 == U("http", "a.com", "", "watermark", "download", ".php", "show", "a")
W3 == U("http", "b.com", "", "watermark", "download", ".php", "file", "a.pdf")
W4 == U("http", "b.com", "", "files", "getpdf", ".pdf", "", "")
O1 == U("", "", "", "pdf", "a", ".pdf", "", "")
G1 == U("http", "a.com", "", "files", "getpdf", ".php", "id", "3")

\* The hrefs that occur on the crawled site: a page and a PDF on the start
\* host, a page on another host, and a .pdf file on another host whose name
\* matches a watermark pattern ('getpdf').  The onclick paths are relative paths.
AnchorUrls == {P1, P2, D1, W4}

\* A second site, all on the start host: a page, a PDF and a link whose href
\* contains 'getpdf' and whose path does not end in .pdf.
GetPdfUrls == {P1, D1, G1}
OnclickPaths == {O1}

SeqsUpTo(S, n) == UNION {[1..k -> S] : k \in 0..n}

Soups(site) == [onclicks : SeqsUpTo(OnclickPaths, MaxOnclick),
                anchors : SeqsUpTo(site, MaxAnchors)]

NoSoup == [onclicks |-> <<>>, anchors |-> <<>>]

\* What _request_with_retries returns for a page: None, or a 200 response with
\* its Content-Type, whether BeautifulSoup parses it, and the parsed page.
PageResponse(status, ctype, parses, page) ==
  [status |-> status, ctype |-> ctype, parses |-> parses, soup |-> page]

PageResponses(site) ==
  {PageResponse(0, "", FALSE, NoSoup),
   PageResponse(200, "application/pdf", TRUE, NoSoup),
   PageResponse(200, "text/html", FALSE, NoSoup)}
    \cup {PageResponse(200, "text/html", TRUE, sp) : sp \in Soups(site)}

\* _is_html_response(response)
_is_html_response(response) ==
  response.ctype \in {"text/html", "application/xhtml+xml", "text/plain"}

VALID_PDF == PDF_SIG \o <<"1">> \o EOF_MARK
DEBUG_PDF == <<"D", "b", "g">> \o VALID_PDF
TRUNCATED_PDF == PDF_SIG \o <<"1">>
HTML_PAGE == HTML_TAG \o <<">">>

\* The responses a PDF request may get during a crawl: none, a 404, a 200
\* without the signature, a 200 with the signature but no footer, a PDF behind
\* debug output.
PdfResponses ==
  {NoResponse,
   Response(404, "text/html", HTML_PAGE, ""),
   Response(200, "text/html", HTML_PAGE, ""),
   Response(200, "application/pdf", TRUNCATED_PDF, ""),
   Response(200, "application/pdf", DEBUG_PDF, "")}

\* The responses tried on the downloaders alone: also a PDF served as text/html
\* behind an <html tag, and one with a Content-Disposition file name.
AllPdfResponses ==
  PdfResponses \cup
    {Response(200, "application/pdf", VALID_PDF, ""),
     Response(200, "text/html", HTML_PAGE \o VALID_PDF, ""),
     Response(200, "application/pdf", VALID_PDF, "b.pdf")}

\* The allowed_hosts arguments tried; {} stands for None.
AllowLists == {{}, {NetLoc("a.com", "")}, {NetLoc("A.com", "8080")}}

Limits == {NoLimit} \cup (0..MaxLimit)

\* ------------------------------------------------------------------ state

VARIABLES
  start_url, allowed_hosts, max_pages, max_pdfs,   \* the arguments of the run
  hrefs,                \* the hrefs that occur on the pages of the site
  pc,                   \* where crawl_and_download stands
  allowed,              \* the normalised allow-list ({} for None)
  visited, queue, downloaded, downloaded_urls, pages_crawled, max_pdf_limit_hit,
  current_url, soup,    \* the page being processed
  idx,                  \* position of the running for-loop in its list
  files,                \* the download folder
  last_call,            \* the downloader call of the latest step (NoCall if none)
  events, sink_failed,  \* what status_callback was handed; whether it ever raised
  enqueued, dequeued,   \* history: every append to / popleft from the queue
  depth,                \* history: for each append, the link distance from start_url
  page_fetch,           \* what the page fetch of the latest step returned
  trouble,              \* history: a page was dropped or a downloader returned None
  fetch,                \* a call of the fetcher, followed attempt by attempt
  unit,                 \* a call of one of the string functions: argument and result
  db,                   \* start_scraping after the crawl: the database and its transaction
  procs                 \* two invocations at once: where each downloader call stands

sinkvars == <<events, sink_failed>>

corevars == <<start_url, allowed_hosts, max_pages, max_pdfs, hrefs, pc, allowed,
              visited, queue, downloaded, downloaded_urls, pages_crawled,
              max_pdf_limit_hit, current_url, soup, idx, files, last_call,
              enqueued, dequeued, depth, page_fetch, trouble>>

vars == <<corevars, sinkvars, fetch, unit, db, procs>>

\* No fetcher call and no string function call is being followed.
NoFetch == [caller |-> "", retries |-> 0, VERIFY_SSL |-> TRUE, pc |-> "",
            attempt |-> 0, attempts |-> <<>>, slept_after |-> {}, status |-> 0]

NoBase == [scheme |-> <<>>, netloc |-> <<>>]

NoUnit == [kind |-> "", fn |-> "", arg |-> <<>>, base |-> NoBase,
           first |-> <<>>, result |-> <<>>]

\* No request is being served and the database is empty.
NoDb == [pc |-> "", documents |-> <<>>, pages_crawled |-> <<>>, i |-> 0,
         runs |-> <<>>, rows |-> <<>>, tx_runs |-> <<>>, tx_rows |-> <<>>,
         requests |-> <<>>]

\* The sink's view of the payloads it was handed, in order: how many there were
\* of state "Completed", whether a "Running" one came after a "Completed" one,
\* and the latest payload (the one a status panel shows).
NoEvents == [completed |-> 0, running_after_completed |-> FALSE,
             last |-> [state |-> "", pages_crawled |-> 0, downloaded |-> 0]]

Received(log, payload) ==
  [completed |-> log.completed + (IF payload.state = "Completed" THEN 1 ELSE 0),
   running_after_completed |->
     log.running_after_completed \/ (payload.state = "Running" /\ log.completed > 0),
   last |-> payload]

\* The two invocations that run at once, neither in a downloader call.
Procs == {1, 2}

NoProc == [pc |-> "idle", calls |-> 0, method |-> "", ref |-> NoUrl, seen |-> {},
           target_path |-> NoPath, wrote |-> NoPath]

NoProcs == [p \in Procs |-> NoProc]

\* No page fetch in the latest step.
NoPageFetch == [status |-> 0, ctype |-> "", parses |-> FALSE, url |-> NoUrl]

NoCall == [method |-> "", ref |-> NoUrl, page |-> NoUrl, response |-> NoResponse,
           folder |-> {}, outcome |-> Outcome(FALSE, NoUrl, NoInfo, NoPath)]

Locals(entry) ==
  /\ pc = entry
  /\ allowed = (IF allowed_hosts # {} THEN NormalizeAllowed(allowed_hosts) ELSE {})
  /\ visited = {}
  /\ queue = <<start_url>>
  /\ downloaded = <<>>
  /\ downloaded_urls = {}
  /\ pages_crawled = 0
  /\ max_pdf_limit_hit = FALSE
  /\ current_url = NoUrl
  /\ soup = NoSoup
  /\ idx = 0
  /\ last_call = NoCall
  /\ events = NoEvents
  /\ sink_failed = FALSE
  /\ enqueued = <<start_url>>
  /\ dequeued = <<>>
  /\ depth = <<0>>
  /\ page_fetch = NoPageFetch
  /\ trouble = FALSE

\* A call of crawl_and_download on an empty download folder, for a site on
\* whose pages the hrefs of `site` occur.
CalledOn(site, lists, page_limits, pdf_limits) ==
  /\ start_url = StartUrl
  /\ allowed_hosts \in lists
  /\ max_pages \in page_limits
  /\ max_pdfs \in pdf_limits
  /\ hrefs = site
  /\ files = {}
  /\ Locals("start")
  /\ fetch = NoFetch
  /\ unit = NoUnit
  /\ db = NoDb
  /\ procs = NoProcs

Called(lists, page_limits, pdf_limits) ==
  CalledOn(AnchorUrls, lists, page_limits, pdf_limits)

Init == Called(AllowLists, Limits, Limits)

\* ----------------------------------------------------------- progress sink

\* (a variant that passes the two counts in the wrong order)
PayloadSwapped(state, pages, downloaded_count) ==
  [state |-> state, pages_crawled |-> downloaded_count, downloaded |-> pages]

Payload(state, pages, downloaded_count) ==
  [state |-> state, pages_crawled |-> pages, downloaded |-> downloaded_count]

\* (a variant without the try / except around status_callback)
EmitStatusUncaught(raises) == raises

\* emit_status: does an exception raised by status_callback leave emit_status?
\* The call is wrapped in try / except Exception, which logs and returns.
emit_status_propagates(raises) == FALSE

\* One step of crawl_and_download that calls emit_status(payload) when `emits`
\* holds and then continues with `core`.  An exception that leaves emit_status
\* ends the call: nothing of `core` happens.
Emitting(emits, payload, core) ==
  \E raises \in (IF emits THEN BOOLEAN ELSE {FALSE}) :
    /\ events' = (IF emits THEN Received(events, payload) ELSE events)
    /\ sink_failed' = (sink_failed \/ raises)
    /\ UNCHANGED <<fetch, unit, db, procs>>
    /\ IF emit_status_propagates(raises)
         THEN /\ pc' = "raised"
              /\ UNCHANGED <<start_url, allowed_hosts, max_pages, max_pdfs, hrefs,
                             allowed, visited, queue, downloaded, downloaded_urls,
                             pages_crawled, max_pdf_limit_hit, current_url, soup,
                             idx, files, last_call, enqueued, dequeued, depth,
                             page_fetch, trouble>>
       ELSE core

params == <<start_url, allowed_hosts, max_pages, max_pdfs, hrefs, allowed>>

\* (a variant that drops a page only when the fetch returned None)
DroppedOnlyNone(response) == response.status # 200

\* `if response is None: continue`, `if not _is_html_response(response):
\* continue`, and the `continue` of the except around BeautifulSoup.
Dropped(response) ==
  response.status # 200 \/ ~_is_html_response(response) \/ ~response.parses

\* ---------------------------------------------------------- the crawl loop

\* emit_status("Running", "Crawling started", pages=0, downloaded_count=0)
StartCore ==
  /\ pc = "start"
  /\ pc' = "loop"
  /\ UNCHANGED <<params, trouble, visited, queue, downloaded, downloaded_urls, pages_crawled,
                 max_pdf_limit_hit, current_url, soup, idx, files,
                 enqueued, dequeued, depth>>
  /\ last_call' = NoCall
  /\ page_fetch' = NoPageFetch

Start == pc = "start" /\ Emitting(TRUE, Payload("Running", 0, 0), StartCore)

\* (a variant that tests the limit one page late)
PageLimitOffByOne == max_pages # NoLimit /\ pages_crawled > max_pages

\* `if max_pages is not None and pages_crawled >= max_pages: break`
PageLimitReached == max_pages # NoLimit /\ pages_crawled >= max_pages

\* `while queue and not max_pdf_limit_hit`, then the max_pages test.
LoopExits == queue = <<>> \/ max_pdf_limit_hit \/ PageLimitReached

\* (a variant that takes the newest item: deque.pop())
pop(q) == [item |-> q[Len(q)], rest |-> SubSeq(q, 1, Len(q) - 1)]

\* deque.popleft(): the oldest item, and the queue without it.
popleft(q) == [item |-> Head(q), rest |-> Tail(q)]

\* current_url = queue.popleft(); skip it if visited, else mark and count it.
DequeueCore ==
  /\ pc = "loop"
  /\ ~LoopExits
  /\ queue' = popleft(queue).rest
  /\ dequeued' = Append(dequeued, popleft(queue).item)
  /\ current_url' = popleft(queue).item
  /\ IF popleft(queue).item \in visited
       THEN UNCHANGED <<visited, pages_crawled, pc>>
     ELSE /\ visited' = visited \cup {popleft(queue).item}
          /\ pages_crawled' = pages_crawled + 1
          /\ pc' = "fetch"
  /\ UNCHANGED <<params, trouble, downloaded, downloaded_urls, max_pdf_limit_hit, soup, idx,
                 files, enqueued, depth>>
  /\ last_call' = NoCall
  /\ page_fetch' = NoPageFetch

Dequeue ==
  /\ pc = "loop" /\ ~LoopExits
  /\ Emitting(popleft(queue).item \notin visited,
              Payload("Running", pages_crawled + 1, Len(downloaded)), DequeueCore)

\* Where the loops over the three reference lists stand after `i - 1` items of
\* the list of `method`: at item i, or at the first item of the next non-empty
\* list, or at the link scan.
PosDirect(i, sp) ==
  IF i <= Len(_extract_regular_pdf_links(sp)) THEN <<"direct", i>> ELSE <<"links", 0>>

PosWatermark(i, sp) ==
  IF i <= Len(_extract_watermark_hrefs(sp)) THEN <<"watermark_href", i>>
  ELSE PosDirect(1, sp)

PosOnclick(i, sp) ==
  IF i <= Len(_extract_onclick_pdfs(sp)) THEN <<"onclick", i>> ELSE PosWatermark(1, sp)

\* (a variant that runs the direct loop before the watermark loop)
PositionDirectFirst(method, i, sp) ==
  LET W(k) == IF k <= Len(_extract_watermark_hrefs(sp)) THEN <<"watermark_href", k>>
              ELSE <<"links", 0>>
      D(k) == IF k <= Len(_extract_regular_pdf_links(sp)) THEN <<"direct", k>>
              ELSE W(1)
  IN IF method = "onclick"
       THEN IF i <= Len(_extract_onclick_pdfs(sp)) THEN <<"onclick", i>> ELSE D(1)
     ELSE IF method = "direct" THEN D(i)
     ELSE W(i)

\* (a variant in which a loop stays at the item it has just handled)
PositionStuck(method, i, sp) ==
  IF i > 1 THEN <<method, i - 1>>
  ELSE IF method = "onclick" THEN PosOnclick(i, sp)
  ELSE IF method = "watermark_href" THEN PosWatermark(i, sp)
  ELSE PosDirect(i, sp)

Position(method, i, sp) ==
  IF method = "onclick" THEN PosOnclick(i, sp)
  ELSE IF method = "watermark_href" THEN PosWatermark(i, sp)
  ELSE PosDirect(i, sp)

\* (a variant in which a dropped page ends the call with an exception)
FetchPageCoreRaises(response) ==
  /\ pc = "fetch"
  /\ pc' = (IF Dropped(response) THEN "raised"
            ELSE Position("onclick", 1, response.soup)[1])
  /\ idx' = (IF Dropped(response) THEN idx ELSE Position("onclick", 1, response.soup)[2])
  /\ soup' = (IF Dropped(response) THEN soup ELSE response.soup)
  /\ trouble' = (trouble \/ Dropped(response))
  /\ last_call' = NoCall
  /\ page_fetch' = [status |-> response.status, ctype |-> response.ctype,
                    parses |-> response.parses, url |-> current_url]
  /\ UNCHANGED <<params, visited, queue, downloaded, downloaded_urls, pages_crawled,
                 max_pdf_limit_hit, current_url, files, enqueued, dequeued, depth>>

\* response = _request_with_retries(current_url); the page is dropped on None,
\* on a non-HTML Content-Type and on a parse failure; else the extractors run.
FetchPageCore(response) ==
  /\ pc = "fetch"
  /\ trouble' = (trouble \/ Dropped(response))
  /\ IF Dropped(response)
       THEN pc' = "loop" /\ UNCHANGED <<soup, idx>>
     ELSE /\ soup' = response.soup
          /\ pc' = Position("onclick", 1, response.soup)[1]
          /\ idx' = Position("onclick", 1, response.soup)[2]
  /\ UNCHANGED <<params, visited, queue, downloaded, downloaded_urls, pages_crawled,
                 max_pdf_limit_hit, current_url, files, enqueued, dequeued, depth>>
  /\ last_call' = NoCall
  /\ page_fetch' = [status |-> response.status, ctype |-> response.ctype,
                    parses |-> response.parses, url |-> current_url]

FetchPage ==
  /\ pc = "fetch"
  /\ \E response \in PageResponses(hrefs) :
       Emitting(~Dropped(response),
                Payload("Running", pages_crawled, Len(downloaded)),
                FetchPageCore(response))

\* The list the for-loop of `method` runs over.
Refs(method, sp) ==
  IF method = "onclick" THEN _extract_onclick_pdfs(sp)
  ELSE IF method = "watermark_href" THEN _extract_watermark_hrefs(sp)
  ELSE _extract_regular_pdf_links(sp)

\* (a variant without the downloaded_urls test)
SkippedNoDedupe(method, ref) ==
  method = "direct" /\ allowed # {} /\ ~_is_allowed_host(ref, allowed)

\* The `continue` tests at the head of a loop body: the allow-list test of the
\* direct loop, then the downloaded_urls test of all three.
Skipped(method, ref) ==
  \/ method = "direct" /\ allowed # {} /\ ~_is_allowed_host(ref, allowed)
  \/ ref \in downloaded_urls

\* (a variant that never tests the limit)
PdfLimitNever(count) == FALSE

\* `if max_pdfs is not None and len(downloaded) >= max_pdfs`
PdfLimitReached(count) == max_pdfs # NoLimit /\ count >= max_pdfs

\* (a variant that attributes every document to the start page)
RecordFromStart(info, page, method) ==
  [url |-> info.url, path |-> info.path, filename |-> info.filename,
   downloaded_at |-> info.downloaded_at, source_page |-> start_url, method |-> method]

\* pdf_info["source_page"] = current_url; pdf_info["method"] = ...
Record(info, page, method) ==
  [url |-> info.url, path |-> info.path, filename |-> info.filename,
   downloaded_at |-> info.downloaded_at, source_page |-> page, method |-> method]

\* (a variant that remembers a reference whether its download succeeded or not)
RememberedAlways(got, ref) == downloaded_urls \cup {ref}

\* downloaded_urls.add(ref), inside `if pdf_info:`
Remembered(got, ref) == IF got THEN downloaded_urls \cup {ref} ELSE downloaded_urls

\* One pass through the body of the for-loop of `method`, for the reference at
\* idx, with `response` what the GET returns should the downloader issue one.
DownloadCore(method, response) ==
  LET ref == Refs(method, soup)[idx]
      out == Download(method, ref, files, current_url, response)
      next == Position(method, idx + 1, soup)
      skip == Skipped(method, ref)
      got == ~skip /\ out.info # NoInfo
      hit == got /\ PdfLimitReached(Len(downloaded) + 1)
  IN /\ pc = method
     /\ last_call' =
          (IF skip THEN NoCall
           ELSE [method |-> method, ref |-> ref, page |-> current_url,
                 response |-> IF out.requested THEN response ELSE NoResponse,
                 folder |-> files, outcome |-> out])
     /\ files' = (IF ~skip /\ out.wrote # NoPath
                    THEN WriteFile(files, out.wrote, ref, method) ELSE files)
     /\ downloaded' =
          (IF got THEN Append(downloaded, Record(out.info, current_url, method))
           ELSE downloaded)
     /\ downloaded_urls' = Remembered(got, ref)
     /\ max_pdf_limit_hit' = (max_pdf_limit_hit \/ hit)
     /\ pc' = (IF hit THEN "loop" ELSE next[1])
     /\ idx' = (IF hit THEN 0 ELSE next[2])
     /\ soup' = (IF hit THEN NoSoup ELSE soup)
     /\ trouble' = (trouble \/ (~skip /\ out.info = NoInfo))
     /\ page_fetch' = NoPageFetch
     /\ UNCHANGED <<params, visited, queue, pages_crawled, current_url,
                    enqueued, dequeued, depth>>

\* A response only matters when the downloader issues a request.
ResponsesFor(method) ==
  LET ref == Refs(method, soup)[idx]
  IN IF Skipped(method, ref)
        \/ ~Download(method, ref, files, current_url, NoResponse).requested
       THEN {NoResponse}
     ELSE PdfResponses

DownloadStep(method) ==
  /\ pc = method
  /\ \E response \in ResponsesFor(method) :
       LET ref == Refs(method, soup)[idx]
           out == Download(method, ref, files, current_url, response)
       IN Emitting(~Skipped(method, ref) /\ out.info # NoInfo,
                   Payload("Running", pages_crawled, Len(downloaded) + 1),
                   DownloadCore(method, response))

DownloadOnclick == DownloadStep("onclick")
DownloadWatermark == DownloadStep("watermark_href")
DownloadDirect == DownloadStep("direct")

\* The tests an <a href> passes before the visited / queue test.
IsCrawlable(u) ==
  /\ u.scheme \in {"http", "https"}
  /\ ~(allowed # {} /\ ~_is_allowed_host(u, allowed))
  /\ ~PathEndsPdf(u)
  /\ ~PathIsWatermark(u)
  /\ u.ext \notin skip_ext

\* (a variant without the visited / queue test)
IsNewAlways(u, q) == TRUE

\* (a variant that tests visited only)
IsNewNotQueued(u, q) == u \notin visited

\* `if full_url not in visited and full_url not in queue`
IsNew(u, q) == u \notin visited /\ u \notin Range(q)

\* The queue after the scan of soup.select("a[href]").
Scanned(q, anchors) ==
  LET F[i \in 0..Len(anchors)] ==
        IF i = 0 THEN q
        ELSE IF IsCrawlable(anchors[i]) /\ IsNew(anchors[i], F[i - 1])
               THEN Append(F[i - 1], anchors[i])
             ELSE F[i - 1]
  IN F[Len(anchors)]

\* The link distance from start_url at which a URL was appended to the queue.
DepthOf(u) == depth[CHOOSE i \in 1..Len(enqueued) : enqueued[i] = u]

LinksCore ==
  LET q == Scanned(queue, soup.anchors)
  IN /\ pc = "links"
     /\ queue' = q
     /\ enqueued' = enqueued \o SubSeq(q, Len(queue) + 1, Len(q))
     /\ depth' = depth \o [i \in 1..(Len(q) - Len(queue)) |-> DepthOf(current_url) + 1]
     /\ pc' = "loop"
     /\ soup' = NoSoup
     /\ idx' = 0
     /\ UNCHANGED <<params, trouble, visited, downloaded, downloaded_urls, pages_crawled,
                    max_pdf_limit_hit, current_url, files, dequeued>>
     /\ last_call' = NoCall
     /\ page_fetch' = NoPageFetch

EnqueueLinks ==
  /\ pc = "links"
  /\ Emitting(Len(Scanned(queue, soup.anchors)) > Len(queue),
              Payload("Running", pages_crawled, Len(downloaded)), LinksCore)

\* After the loop: emit_status("Completed", ...) and return downloaded, metadata.
FinishCore ==
  /\ pc = "loop"
  /\ LoopExits
  /\ pc' = "done"
  /\ UNCHANGED <<params, trouble, visited, queue, downloaded, downloaded_urls, pages_crawled,
                 max_pdf_limit_hit, current_url, soup, idx, files,
                 enqueued, dequeued, depth>>
  /\ last_call' = NoCall
  /\ page_fetch' = NoPageFetch

Finish ==
  /\ pc = "loop" /\ LoopExits
  /\ Emitting(TRUE, Payload("Completed", pages_crawled, Len(downloaded)), FinishCore)

Next ==
  \/ Start
  \/ Dequeue
  \/ FetchPage
  \/ DownloadOnclick
  \/ DownloadWatermark
  \/ DownloadDirect
  \/ EnqueueLinks
  \/ Finish

Spec == Init /\ [][Next]_vars

\* crawl_and_download is one sequential call: it takes its next step as long as
\* it has one.
FairSpec == Spec /\ WF_vars(Next)

\* The same crawl on the second site, as start_scraping calls it: with the
\* start host as allow-list.
GetPdfInit == CalledOn(GetPdfUrls, {{NetLoc("a.com", "")}}, Limits, Limits)

GetPdfSpec == GetPdfInit /\ [][Next]_vars

\* ------------------------------------------------- the downloaders alone

\* The three downloaders are module-level functions.  Here they are called
\* one after the other on the same folder, as successive runs call them, with
\* any reference and any response.
NoCrawl ==
  /\ start_url = StartUrl
  /\ allowed_hosts = {}
  /\ max_pages = NoLimit
  /\ max_pdfs = NoLimit
  /\ hrefs = {}
  /\ files = {}
  /\ Locals("idle")

DlInit == NoCrawl /\ fetch = NoFetch /\ unit = NoUnit /\ db = NoDb /\ procs = NoProcs

DlCall(method, refs) ==
  /\ pc = "idle"
  /\ \E ref \in refs, response \in AllPdfResponses :
       LET out == Download(method, ref, files, StartUrl, response)
       IN /\ files' = (IF out.wrote # NoPath
                         THEN WriteFile(files, out.wrote, ref, method) ELSE files)
          /\ last_call' = [method |-> method, ref |-> ref, page |-> StartUrl,
                           response |-> IF out.requested THEN response ELSE NoResponse,
                           folder |-> files, outcome |-> out]
  /\ UNCHANGED <<params, pc, visited, queue, downloaded, downloaded_urls,
                 pages_crawled, max_pdf_limit_hit, current_url, soup, idx,
                 enqueued, dequeued, depth, page_fetch, trouble, events, sink_failed,
                 fetch, unit, db, procs>>

CallOnclick == DlCall("onclick", {O1})
CallWatermarkHref == DlCall("watermark_href", {W1, W3})
CallDirect == DlCall("direct", {D1, D2})

DlNext == CallOnclick \/ CallWatermarkHref \/ CallDirect

DlSpec == DlInit /\ [][DlNext]_vars

\* ------------------------------------------------- two invocations at once

\* Two requests for the same host get the same download folder, and each runs
\* crawl_and_download on it.  Nothing in the crawler takes a lock, so the steps
\* of one invocation's downloader call interleave with the other's: the choice
\* of the target path and the exists() test, then the GET, then the write.

Methods == {"onclick", "watermark_href", "direct"}

\* Downloader calls each invocation makes.
MaxCalls == 2

RefsOf(method) ==
  IF method = "onclick" THEN {O1}
  ELSE IF method = "watermark_href" THEN {W1, W3}
  ELSE {D1, D2}

RaceInit == NoCrawl /\ fetch = NoFetch /\ unit = NoUnit /\ db = NoDb /\ procs = NoProcs

RaceUnchanged ==
  UNCHANGED <<params, pc, visited, queue, downloaded, downloaded_urls,
              pages_crawled, max_pdf_limit_hit, current_url, soup, idx, last_call,
              enqueued, dequeued, depth, page_fetch, trouble, events, sink_failed,
              fetch, unit, db>>

\* The downloader up to its GET: the target path is chosen on the folder as it
\* is now, and the call returns at once when that path exists.
Resolve(p) ==
  /\ pc = "idle"
  /\ procs[p].pc \in {"idle", "done"}
  /\ procs[p].calls < MaxCalls
  /\ \E method \in Methods :
       \E ref \in RefsOf(method) :
         LET out == Download(method, ref, files, StartUrl, NoResponse)
         IN procs' = [procs EXCEPT ![p] =
                        [pc |-> IF out.requested THEN "get" ELSE "done",
                         calls |-> procs[p].calls + 1,
                         method |-> method, ref |-> ref, seen |-> files,
                         target_path |-> NoPath, wrote |-> NoPath]]
  /\ UNCHANGED files
  /\ RaceUnchanged

\* The GET returns: the response is validated, and download_watermark_href
\* chooses the path again from the Content-Disposition name on the folder as it
\* is by then.  The path of the other cases is the one chosen before the GET.
Receive(p) ==
  /\ procs[p].pc = "get"
  /\ \E response \in AllPdfResponses :
       LET me == procs[p]
           out == Download(me.method, me.ref, me.seen, StartUrl, response)
           path == IF /\ me.method = "watermark_href"
                      /\ response.cd # ""
                      /\ EndsPdf(response.cd)
                     THEN _unique_target_path(files, _sanitize_filename(response.cd),
                                              me.ref)
                   ELSE out.wrote
       IN procs' = [procs EXCEPT ![p] =
                      IF out.wrote = NoPath
                        THEN [me EXCEPT !.pc = "done"]
                      ELSE [me EXCEPT !.pc = "write", !.target_path = path]]
  /\ UNCHANGED files
  /\ RaceUnchanged

\* `with open(target_path, "wb") as f: f.write(response.content)`
Write(p) ==
  /\ procs[p].pc = "write"
  /\ files' = WriteFile(files, procs[p].target_path, procs[p].ref, procs[p].method)
  /\ procs' = [procs EXCEPT ![p] =
                 [@ EXCEPT !.pc = "done", !.wrote = procs[p].target_path]]
  /\ RaceUnchanged

RaceNext == \E p \in Procs : Resolve(p) \/ Receive(p) \/ Write(p)

RaceSpec == RaceInit /\ [][RaceNext]_vars

\* ------------------------------------------------------------ the fetcher

\* Largest value tried for `retries`.
MaxRetries == 3

\* What one _SESSION.get does: it returns a response with a status, or raises
\* requests.exceptions.SSLError, or raises something else.
GetResults == {"200", "404", "SSLError", "ConnectionError"}

StatusOf(result) == IF result = "200" THEN 200 ELSE IF result = "404" THEN 404 ELSE 0

\* One GET: whether certificates are verified, and what it did.
Get(verify, result) == [verify |-> verify, result |-> result]
NoGet == [verify |-> FALSE, result |-> ""]

\* _get_with_ssl_fallback(url): the session verifies as VERIFY_SSL says; `first`
\* is what the session's GET does, `second` what the GET with verify=False does
\* if there is one.  status 0 stands for None.
_get_with_ssl_fallback(VERIFY_SSL, first, second) ==
  IF first \in {"200", "404"}
    THEN [first |-> Get(VERIFY_SSL, first), fallback |-> NoGet, status |-> StatusOf(first)]
  ELSE IF first = "SSLError"
    THEN IF ~VERIFY_SSL
           THEN [first |-> Get(VERIFY_SSL, first), fallback |-> NoGet, status |-> 0]
         ELSE [first |-> Get(VERIFY_SSL, first), fallback |-> Get(FALSE, second),
               status |-> StatusOf(second)]
  ELSE [first |-> Get(VERIFY_SSL, first), fallback |-> NoGet, status |-> 0]

\* The second GET matters only when there is one.
SecondResults(VERIFY_SSL, first) ==
  IF first = "SSLError" /\ VERIFY_SSL THEN GetResults ELSE {""}

\* crawl_and_download fetches a page with _request_with_retries(current_url,
\* retries, delay); each downloader calls _get_with_ssl_fallback itself.
FetchInit ==
  /\ NoCrawl
  /\ unit = NoUnit
  /\ db = NoDb
  /\ procs = NoProcs
  /\ \E caller \in {"page"} \cup Methods, retries \in 0..MaxRetries, v \in BOOLEAN :
       fetch = [caller |-> caller, retries |-> retries, VERIFY_SSL |-> v, pc |-> "loop",
                attempt |-> 0, attempts |-> <<>>, slept_after |-> {}, status |-> 0]

\* `for attempt in range(retries)`: one pass through the body up to the sleep.
Attempt ==
  /\ fetch.caller = "page" /\ fetch.pc = "loop" /\ fetch.attempt < fetch.retries
  /\ \E first \in GetResults :
       \E second \in SecondResults(fetch.VERIFY_SSL, first) :
         LET response == _get_with_ssl_fallback(fetch.VERIFY_SSL, first, second)
         IN fetch' =
              [fetch EXCEPT
                 !.attempts = Append(@, response),
                 !.status = IF response.status = 200 THEN 200 ELSE 0,
                 !.pc = IF response.status = 200 THEN "returned"
                        ELSE IF fetch.attempt < fetch.retries - 1 THEN "sleep"
                        ELSE "loop",
                 !.attempt = IF response.status # 200
                                /\ ~(fetch.attempt < fetch.retries - 1)
                               THEN @ + 1 ELSE @]
  /\ UNCHANGED <<corevars, sinkvars, unit, db, procs>>

\* time.sleep(delay), then the next pass.
Sleep ==
  /\ fetch.pc = "sleep"
  /\ fetch' = [fetch EXCEPT !.slept_after = @ \cup {Len(fetch.attempts)},
                            !.attempt = @ + 1,
                            !.pc = "loop"]
  /\ UNCHANGED <<corevars, sinkvars, unit, db, procs>>

\* The for-loop is over: return None.
GiveUp ==
  /\ fetch.caller = "page" /\ fetch.pc = "loop" /\ fetch.attempt >= fetch.retries
  /\ fetch' = [fetch EXCEPT !.pc = "returned", !.status = 0]
  /\ UNCHANGED <<corevars, sinkvars, unit, db, procs>>

\* response = _get_with_ssl_fallback(url, timeout=60, ...) in a downloader, which
\* then returns None unless the response is there and its status is 200.
DownloaderGet ==
  /\ fetch.caller \in Methods /\ fetch.pc = "loop"
  /\ \E first \in GetResults :
       \E second \in SecondResults(fetch.VERIFY_SSL, first) :
         LET response == _get_with_ssl_fallback(fetch.VERIFY_SSL, first, second)
         IN fetch' = [fetch EXCEPT !.attempts = Append(@, response),
                                   !.status = response.status,
                                   !.pc = "returned"]
  /\ UNCHANGED <<corevars, sinkvars, unit, db, procs>>

FetchNext == Attempt \/ Sleep \/ GiveUp \/ DownloaderGet

FetchSpec == FetchInit /\ [][FetchNext]_vars

\* ------------------------------------------------------ string functions

\* Character strings are sequences of one-character strings.
DOT_PDF == <<".", "p", "d", "f">>
PDF_SLASH == <<"p", "d", "f", "/">>

\* A run of n filler characters.
Fill(n, c) == [i \in 1..n |-> c]

EndsWith(s, suffix) ==
  /\ Len(s) >= Len(suffix)
  /\ SubSeq(s, Len(s) - Len(suffix) + 1, Len(s)) = suffix

\* str.lower() on the letters of the model.
LowerChar(c) ==
  IF c = "P" THEN "p" ELSE IF c = "D" THEN "d" ELSE IF c = "F" THEN "f"
  ELSE IF c = "L" THEN "l" ELSE c

LowerStr(s) == [i \in 1..Len(s) |-> LowerChar(s[i])]

\* The %XX escapes of the characters of the model.
Escapes == {<<"/", "2", "F">>, <<" ", "2", "0">>, <<"%", "2", "5">>,
            <<":", "3", "A">>, <<"?", "3", "F">>}

\* A position that a rewriting step drops is marked "" and then removed.
Present(c) == c # ""

\* urllib.parse.unquote(s): every %XX escape is decoded, anything else is kept.
\* (The two characters after a "%" of an escape are hex digits, so escapes
\* never overlap.)
Unquote(s) ==
  LET n == Len(s)
      Esc(i) == {e \in Escapes : /\ i >= 1 /\ i + 2 <= n
                                 /\ s[i] = "%" /\ s[i + 1] = e[2] /\ s[i + 2] = e[3]}
      marked == [i \in 1..n |->
                   IF Esc(i - 1) # {} \/ Esc(i - 2) # {} THEN ""
                   ELSE IF Esc(i) # {} THEN (CHOOSE e \in Esc(i) : TRUE)[1]
                   ELSE s[i]]
  IN SelectSeq(marked, Present)

\* The characters quote() never escapes: letters, digits and _ . - ~
Reserved == {e[1] : e \in Escapes} \cup {"<", ">", "\"", "\\", "|", "*", "\n", "\r", "\t"}

\* (a variant with quote()'s default safe='/')
QuoteCharKeepSlash(c) ==
  IF c = "/" \/ c \notin Reserved THEN <<c>>
  ELSE LET e == CHOOSE x \in Escapes : x[1] = c IN <<"%", e[2], e[3]>>

\* quote(c, safe=''), for the characters that occur in the model's paths.
QuoteChar(c) ==
  IF c \notin Reserved THEN <<c>>
  ELSE LET e == CHOOSE x \in Escapes : x[1] = c IN <<"%", e[2], e[3]>>

Quote(s) ==
  LET F[i \in 0..Len(s)] == IF i = 0 THEN <<>> ELSE F[i - 1] \o QuoteChar(s[i])
  IN F[Len(s)]

\* re.sub(r'[<>:"/\\|?*\x00-\x1f]', '_', name); of the control characters the
\* model has newline, carriage return and tab.
Forbidden == {"<", ">", ":", "\"", "/", "\\", "|", "?", "*"}
Control == {"\n", "\r", "\t"}

ReplaceForbidden(s) ==
  [i \in 1..Len(s) |-> IF s[i] \in Forbidden \cup Control THEN "_" ELSE s[i]]

\* re.sub(r'[ _]+', '_', name)
Collapse(s) ==
  LET marked == [i \in 1..Len(s) |->
                   IF s[i] \notin {" ", "_"} THEN s[i]
                   ELSE IF i > 1 /\ s[i - 1] \in {" ", "_"} THEN ""
                   ELSE "_"]
  IN SelectSeq(marked, Present)

\* name.strip(' _.')
Strip(s) ==
  LET keep == {i \in 1..Len(s) : s[i] \notin {" ", "_", "."}}
  IN IF keep = {} THEN <<>>
     ELSE SubSeq(s, CHOOSE i \in keep : \A j \in keep : i <= j,
                    CHOOSE i \in keep : \A j \in keep : i >= j)

\* if len(name) > 200: name = name[:200]
NameLimit == 200

\* f"document_{int(time.time())}", the time being some digits
DOCUMENT_TIME == <<"d", "o", "c", "u", "m", "e", "n", "t", "_", "1", "7">>

\* _sanitize_filename(name) on character strings, step by step as in the code.
SanitizeFilename(name) ==
  LET unquoted == Unquote(name)
      stem == IF EndsWith(LowerStr(unquoted), DOT_PDF)
                THEN SubSeq(unquoted, 1, Len(unquoted) - 4) ELSE unquoted
      stripped == Strip(Collapse(ReplaceForbidden(stem)))
      cut == IF Len(stripped) > NameLimit THEN SubSeq(stripped, 1, NameLimit)
             ELSE stripped
      named == IF cut = <<>> THEN DOCUMENT_TIME ELSE cut
  IN IF ~EndsWith(LowerStr(named), DOT_PDF) THEN named \o DOT_PDF ELSE named

\* f"{parsed_base.scheme}://{parsed_base.netloc}/watermark/download.php?show={encoded_name}"
SHOW_PATH == <<"/", "w", "a", "t", "e", "r", "m", "a", "r", "k", "/",
               "d", "o", "w", "n", "l", "o", "a", "d", ".", "p", "h", "p",
               "?", "s", "h", "o", "w", "=">>

watermark_url(pdf_path, base_url) ==
  LET cut == IF Len(pdf_path) >= 4 /\ SubSeq(pdf_path, 1, 4) = PDF_SLASH
               THEN SubSeq(pdf_path, 5, Len(pdf_path)) ELSE pdf_path
      file_name == IF EndsWith(cut, DOT_PDF) THEN SubSeq(cut, 1, Len(cut) - 4) ELSE cut
      encoded_name == Quote(file_name)
  IN base_url.scheme \o <<":", "/", "/">> \o base_url.netloc \o SHOW_PATH \o encoded_name

\* ---- the arguments tried

\* Response bodies: debug text or not, a signature or a broken one, a body
\* that may hold a second signature, an end marker or not, and trailing bytes
\* that put the end marker inside, across or outside the last TailWindow bytes.
Payloads ==
  {pre \o sig \o mid \o eof \o pad :
     pre \in {<<>>, <<"D">>, <<"%", "P">>},
     sig \in {<<>>, PDF_SIG, <<"%", "P", "D", "F">>},
     mid \in {<<>>, <<"1">>, PDF_SIG},
     eof \in {<<>>, EOF_MARK},
     pad \in {<<>>, <<"x">>, Fill(TailWindow - 5, "x"), Fill(TailWindow - 4, "x"),
              Fill(TailWindow, "x")}}

NameStems ==
  {<<>>, <<"a">>, <<"a", " ", "_", " ", "b">>, <<"a", "/", "b", ":", "c">>,
   <<"a", "%", "2", "F", "b">>, <<"<", "a", ">", "\n">>, <<"_", ".", "a", ".", " ">>,
   <<"_", " ", ".">>, <<"\\", "|", "?", "*", "\"", "\t", "\r">>,
   Fill(NameLimit - 4, "a"), Fill(NameLimit, "a"), Fill(NameLimit + 1, "a"),
   Fill(NameLimit - 4, "a") \o DOT_PDF \o <<"x">>}

NameSuffixes ==
  {<<>>, DOT_PDF, <<".", "P", "D", "F">>, DOT_PDF \o DOT_PDF,
   DOT_PDF \o DOT_PDF \o DOT_PDF, <<".", "P", "D", "F">> \o DOT_PDF,
   DOT_PDF \o <<"_">>, DOT_PDF \o DOT_PDF \o <<" ">>}

Names == {stem \o suffix : stem \in NameStems, suffix \in NameSuffixes}

POLICY_LAPTOP == PDF_SLASH \o <<"P", "o", "l", "i", "c", "y", "/",
                               "L", "a", "p", "t", "o", "p">> \o DOT_PDF

OnclickArgs ==
  {POLICY_LAPTOP} \cup
  {pre \o body \o suffix :
     pre \in {<<>>, PDF_SLASH, <<"/">> \o PDF_SLASH},
     body \in {<<>>, <<"a">>, <<"a", " ", "b">>, <<"d", "/", "a", "%", "b">>,
               <<"a", ":", "b", "?", "c">>, PDF_SLASH \o <<"a">>},
     suffix \in {<<>>, DOT_PDF, DOT_PDF \o DOT_PDF, <<".", "P", "D", "F">>}}

BaseUrls ==
  {[scheme |-> <<"h", "t", "t", "p", "s">>,
    netloc |-> <<"e", "x", "a", "m", "p", "l", "e", ".", "m", "i", "l">>],
   [scheme |-> <<"h", "t", "t", "p">>,
    netloc |-> <<"a", ".", "c", "o", "m", ":", "8", "0", "8", "0">>]}

\* ---- calling them

UnitInit ==
  /\ NoCrawl
  /\ fetch = NoFetch
  /\ db = NoDb
  /\ procs = NoProcs
  /\ \/ \E content \in Payloads :
          unit = [NoUnit EXCEPT !.kind = "content", !.arg = content]
     \/ \E name \in Names :
          unit = [NoUnit EXCEPT !.kind = "name", !.arg = name]
     \/ \E pdf_path \in OnclickArgs, base_url \in BaseUrls :
          unit = [NoUnit EXCEPT !.kind = "onclick", !.arg = pdf_path, !.base = base_url]

Returns(kind, fn, result) ==
  /\ unit.kind = kind /\ unit.fn = ""
  /\ unit' = [unit EXCEPT !.fn = fn, !.first = result, !.result = result]
  /\ UNCHANGED <<corevars, sinkvars, fetch, db, procs>>

IsValidPdf ==
  /\ unit.kind = "content"
  /\ Returns("content", "_is_valid_pdf", _is_valid_pdf(unit.arg))

ExtractPdf ==
  /\ unit.kind = "content"
  /\ Returns("content", "_extract_pdf_from_response",
             _extract_pdf_from_response(unit.arg))

\* _extract_pdf_from_response applied to what it returned.
ExtractPdfAgain ==
  /\ unit.fn = "_extract_pdf_from_response" /\ unit.result # NoBytes
  /\ unit' = [unit EXCEPT !.fn = "_extract_pdf_from_response twice",
                          !.result = _extract_pdf_from_response(unit.result)]
  /\ UNCHANGED <<corevars, sinkvars, fetch, db, procs>>

Sanitize ==
  /\ unit.kind = "name"
  /\ Returns("name", "_sanitize_filename", SanitizeFilename(unit.arg))

BuildWatermarkUrl ==
  /\ unit.kind = "onclick"
  /\ Returns("onclick", "download_onclick_watermark",
             watermark_url(unit.arg, unit.base))

UnitNext == IsValidPdf \/ ExtractPdf \/ ExtractPdfAgain \/ Sanitize \/ BuildWatermarkUrl

UnitSpec == UnitInit /\ [][UnitNext]_vars

\* --------------------------------------------------- persisting a crawl run

\* Largest number of requests start_scraping serves one after the other, and
\* of documents a crawl hands back.
MaxRequests == 2
MaxDocuments == 2

\* str(n) for the page counts of the model, and int(value) on such strings.
Digits == <<"0", "1", "2", "3", "4", "5", "6", "7", "8", "9">>

Str(n) ==
  IF n < 10 THEN <<Digits[n + 1]>>
  ELSE <<Digits[(n \div 10) + 1], Digits[(n % 10) + 1]>>

DigitValue(c) == CHOOSE d \in 0..9 : Digits[d + 1] = c

IsDigits(value) ==
  value # <<>> /\ \A k \in 1..Len(value) : \E d \in 1..10 : Digits[d] = value[k]

ParseInt(value) ==
  LET F[k \in 0..Len(value)] ==
        IF k = 0 THEN 0 ELSE 10 * F[k - 1] + DigitValue(value[k])
  IN F[Len(value)]

\* _safe_int(value, default): int(value), or default on TypeError / ValueError.
_safe_int(value, default) == IF IsDigits(value) THEN ParseInt(value) ELSE default

\* What crawl_and_download hands back: a list of records and the metadata,
\* whose pages_crawled is str(pages_crawled).
PageCounts == {0, 7, 12}

CrawlRecords ==
  {Record(Info(D1, BaseName(D1), "now"), StartUrl, "direct"),
   Record(Info(O1, BaseName(O1), "mtime"), P1, "onclick"),
   Record(Info(W1, _extract_pdf_name_from_url(W1), "now"), P1, "watermark_href")}

\* CrawlRun.objects.create(...): the row of the run.
CrawlRunRow(id, pages, downloaded_documents) ==
  [id |-> id, pages_crawled |-> pages,
   pdfs_downloaded |-> Len(downloaded_documents)]

\* DownloadedDocument.objects.create(run=crawl_run, ...): the row of a record.
DownloadedDocumentRow(run, document) ==
  [run |-> run, pdf_url |-> document.url, source_page |-> document.source_page,
   filename |-> document.filename, stored_path |-> document.path,
   download_method |-> document.method]

\* (a variant without the atomic block: every create is committed at once)
AutoCommit == FALSE

\* `with transaction.atomic():` around the creates.
transaction_atomic == TRUE

\* A table after an exception has left the block: inside an atomic block the
\* rows created so far are rolled back.
AfterException(table, tx) == IF transaction_atomic THEN table ELSE table \o tx

PersistInit ==
  /\ NoCrawl
  /\ fetch = NoFetch
  /\ unit = NoUnit
  /\ db = [NoDb EXCEPT !.pc = "idle"]
  /\ procs = NoProcs

\* crawl_and_download returns to start_scraping, which reads the page count.
CrawlReturns ==
  /\ db.pc = "idle" /\ Len(db.requests) < MaxRequests
  /\ \E documents \in SeqsUpTo(CrawlRecords, MaxDocuments), n \in PageCounts :
       db' = [db EXCEPT !.pc = "run", !.documents = documents,
                        !.pages_crawled = Str(n), !.i = 0]
  /\ UNCHANGED <<corevars, sinkvars, fetch, unit, procs>>

\* An exception inside the atomic block rolls the block back and leaves
\* start_scraping.
RolledBack ==
  [db EXCEPT !.pc = "idle", !.tx_runs = <<>>, !.tx_rows = <<>>,
             !.runs = AfterException(db.runs, db.tx_runs),
             !.rows = AfterException(db.rows, db.tx_rows),
             !.requests = Append(@, [documents |-> db.documents,
                                     pages_crawled |-> db.pages_crawled,
                                     outcome |-> "raised",
                                     created |-> Len(db.tx_runs) + Len(db.tx_rows),
                                     run |-> 0])]

\* crawl_run = CrawlRun.objects.create(...)
CreateRun ==
  /\ db.pc = "run"
  /\ \E raises \in BOOLEAN :
       db' = IF raises THEN RolledBack
             ELSE [db EXCEPT !.pc = "documents", !.i = 1,
                             !.tx_runs = <<CrawlRunRow(Len(db.runs) + 1,
                                                       _safe_int(db.pages_crawled, 0),
                                                       db.documents)>>]
  /\ UNCHANGED <<corevars, sinkvars, fetch, unit, procs>>

\* One pass of `for document in downloaded_documents`.
CreateDocument ==
  /\ db.pc = "documents" /\ db.i <= Len(db.documents)
  /\ \E raises \in BOOLEAN :
       db' = IF raises THEN RolledBack
             ELSE [db EXCEPT !.i = @ + 1,
                             !.tx_rows = Append(@, DownloadedDocumentRow(
                                                     Len(db.runs) + 1,
                                                     db.documents[db.i]))]
  /\ UNCHANGED <<corevars, sinkvars, fetch, unit, procs>>

\* The atomic block is left: its rows are committed and the view renders.
Commit ==
  /\ db.pc = "documents" /\ db.i > Len(db.documents)
  /\ db' = [db EXCEPT !.pc = "idle", !.tx_runs = <<>>, !.tx_rows = <<>>,
                      !.runs = @ \o db.tx_runs, !.rows = @ \o db.tx_rows,
                      !.requests = Append(@, [documents |-> db.documents,
                                              pages_crawled |-> db.pages_crawled,
                                              outcome |-> "returned",
                                              created |-> Len(db.tx_runs) + Len(db.tx_rows),
                                              run |-> Len(db.runs) + 1])]
  /\ UNCHANGED <<corevars, sinkvars, fetch, unit, procs>>

PersistNext == CrawlReturns \/ CreateRun \/ CreateDocument \/ Commit

PersistSpec == PersistInit /\ [][PersistNext]_vars

\* ------------------------------------------------------------- properties

NoDuplicates(s) == \A i, j \in 1..Len(s) : i # j => s[i] # s[j]

\* C11: the page fetcher makes a first attempt and, while attempts fail (no
\* response or a status other than 200), up to `retries` further ones, sleeping
\* between consecutive attempts; it returns the first 200 response and attempts
\* nothing after it, and returns failure only when the attempts are used up.
C11_RetriesAfterFirstAttempt ==
  LET n == Len(fetch.attempts)
  IN (fetch.caller = "page" /\ fetch.pc = "returned") =>
       /\ n <= 1 + fetch.retries
       /\ fetch.slept_after = 1..(n - 1)
       /\ \A i \in 1..(n - 1) : fetch.attempts[i].status # 200
       /\ fetch.status = 200 => (n >= 1 /\ fetch.attempts[n].status = 200)
       /\ fetch.status # 200 => n = 1 + fetch.retries

\* C12: after a TLS verification failure of a GET there is one further GET,
\* without certificate verification, if and only if VERIFY_SSL is off; with
\* verification on, the TLS failure is a failure and nothing is sent unverified.
C12_FallbackOnlyWhenVerificationOff ==
  \A i \in 1..Len(fetch.attempts) :
    LET a == fetch.attempts[i]
    IN /\ a.first.result = "SSLError" => ((a.fallback # NoGet) <=> ~fetch.VERIFY_SSL)
       /\ fetch.VERIFY_SSL => (a.first.verify /\ a.fallback = NoGet)

\* C13: a PDF download whose GET fails (no response or a status other than
\* 200) is retried as a page fetch is, up to the configured retry count, before
\* the downloader gives up.
C13_DownloadersRetry ==
  (fetch.caller \in Methods /\ fetch.pc = "returned" /\ fetch.status # 200
     /\ fetch.retries >= 2)
    => Len(fetch.attempts) >= 2

\* C1: when max_pdfs is set, the returned document list has at most max_pdfs
\* entries.
C1_AtMostMaxPdfs ==
  (pc = "done" /\ max_pdfs # NoLimit) => Len(downloaded) <= max_pdfs

\* C2: when max_pages is set, pages_crawled never exceeds it and no URL is
\* dequeued once it is reached, whatever is left in the queue; max_pages = 1
\* processes exactly the start page.
C2_PageLimit ==
  max_pages # NoLimit =>
    /\ pages_crawled <= max_pages
    /\ Len(dequeued) <= max_pages
    /\ (pc = "done" /\ max_pages = 1) => (dequeued = <<start_url>> /\ pages_crawled = 1)

C2_StoppedWithBacklog ==
  pc = "done" /\ max_pages = 1 /\ pages_crawled = 1 /\ queue # <<>>

\* C3: no reference key (the url field) occurs in two records of the document
\* list, also when the reference is found on several pages or by two extractors.
C3_NoDuplicateReference ==
  \A i, j \in 1..Len(downloaded) : i # j => downloaded[i].url # downloaded[j].url

C3_FoundAgain ==
  /\ pc \in Methods
  /\ \E i \in 1..Len(downloaded) :
       /\ downloaded[i].url = Refs(pc, soup)[idx]
       /\ downloaded[i].method # pc \/ downloaded[i].source_page # current_url

\* C4: every URL is appended to the queue at most once and popped at most once;
\* a link is appended only if it is neither visited nor in the queue, and the
\* visited set only grows.
C4_State ==
  /\ NoDuplicates(enqueued)
  /\ NoDuplicates(dequeued)
  /\ visited = Range(dequeued)

C4_Step ==
  /\ visited \subseteq visited'
  /\ \A i \in (Len(enqueued) + 1)..Len(enqueued') :
       enqueued'[i] \notin visited /\ enqueued'[i] \notin Range(queue)

C4_OnceEach == [](C4_State) /\ [][C4_Step]_vars

C4_SeenAgain ==
  /\ pc = "links"
  /\ \E i \in 1..Len(soup.anchors) :
       /\ IsCrawlable(soup.anchors[i])
       /\ soup.anchors[i] \in visited \/ soup.anchors[i] \in Range(queue)

\* C5: on a finite link graph, with or without limits and whatever fails, the
\* crawl loop terminates: the run reaches Completed and returns.
C5_Terminates == <>(pc = "done")

C5_CrawledAllDespiteFailures ==
  /\ pc = "done"
  /\ max_pages = NoLimit /\ max_pdfs = NoLimit
  /\ trouble
  /\ Len(dequeued) = 3

\* C6: whatever page fetch or PDF download fails, the run has no failed outcome:
\* the sink gets exactly one Completed event, as the last one, after Running
\* events only, and the call returns.
C6_AlwaysCompleted ==
  /\ pc # "raised"
  /\ events.completed <= 1
  /\ ~events.running_after_completed
  /\ (pc = "done") <=> (events.completed = 1)
  /\ pc = "done" => events.last.state = "Completed"
  /\ pc \notin {"start", "done"} => events.last.state = "Running"

C6_CompletedDespiteFailures ==
  pc = "done" /\ trouble /\ events.completed = 1 /\ pages_crawled >= 2

\* C7: a status_callback that raises on any of its invocations neither aborts
\* nor alters the crawl: every step changes the crawl's state as a step without
\* a raising sink does.
CrawlStep ==
  \/ StartCore
  \/ DequeueCore
  \/ \E response \in PageResponses(hrefs) : FetchPageCore(response)
  \/ \E method \in Methods, response \in PdfResponses : DownloadCore(method, response)
  \/ LinksCore
  \/ FinishCore

C7_SinkIgnored == [](pc # "raised") /\ [][CrawlStep]_corevars

C7_CompletedWithRaisingSink ==
  pc = "done" /\ sink_failed /\ Len(downloaded) >= 1 /\ pages_crawled >= 2

\* C8: with an allow-list, a link whose netloc and hostname are both outside it
\* is never put in the queue, and a direct .pdf link with such a host is never
\* downloaded.  (The allow-list is read as the code normalises it.)
InAllowList(u) == NetlocOf(u) \in allowed \/ HostnameOf(u) \in allowed

C8_AllowListHonoured ==
  allowed # {} =>
    /\ \A i \in 2..Len(enqueued) : InAllowList(enqueued[i])
    /\ \A i \in 1..Len(downloaded) :
         (downloaded[i].method # "onclick" /\ HrefEndsPdf(downloaded[i].url))
           => InAllowList(downloaded[i].url)

\* C9: a downloader writes a file and returns a record only for a 200 response
\* in which the signature is found and whose extracted bytes are valid; when the
\* fetch or the validation fails it returns None and writes nothing, and the
\* document list and downloaded_urls stay as they were.
GoodResponse(response) ==
  /\ response.status = 200
  /\ Find(response.content, PDF_SIG) # -1
  /\ _is_valid_pdf(_extract_pdf_from_response(response.content))

C9_Step ==
  LET c == last_call'
  IN c.method # "" =>
       /\ c.outcome.wrote # NoPath =>
            (GoodResponse(c.response) /\ c.outcome.info # NoInfo)
       /\ (c.outcome.requested /\ ~GoodResponse(c.response)) =>
            /\ c.outcome.info = NoInfo
            /\ c.outcome.wrote = NoPath
            /\ files' = files
            /\ downloaded' = downloaded
            /\ downloaded_urls' = downloaded_urls

C9_FailedDownloadLeavesNothing == [][C9_Step]_vars

C9_InvalidPdfRejected ==
  /\ last_call.outcome.requested
  /\ last_call.response.status = 200
  /\ Find(last_call.response.content, PDF_SIG) # -1
  /\ last_call.outcome.info = NoInfo
  /\ downloaded # <<>>

\* C10: if the file a downloader wrote for reference r into the folder in an
\* earlier call still exists, calling that downloader again with r issues no
\* request, writes nothing and returns a record whose path is that file, dated
\* by its modification time.
C10_ExistingFileReused ==
  LET c == last_call
      mine == {f \in c.folder : f.ref = c.ref /\ f.method = c.method}
  IN (c.method # "" /\ mine # {}) =>
       /\ ~c.outcome.requested
       /\ c.outcome.wrote = NoPath
       /\ c.outcome.info # NoInfo
       /\ c.outcome.info.path \in {f.path : f \in mine}
       /\ c.outcome.info.downloaded_at = "mtime"

\* C14: within one run, references with the same derived filename are written
\* to distinct paths, a later one under the name extended by the hash of its own
\* reference; no download modifies a file that is already there, and no two
\* records share a path.
C14_State ==
  /\ \A i, j \in 1..Len(downloaded) : i # j => downloaded[i].path # downloaded[j].path
  /\ \A i \in 1..Len(downloaded) :
       /\ downloaded[i].path.sha \in {NoUrl, downloaded[i].url}
       /\ \E f \in files : f.path = downloaded[i].path /\ f.ref = downloaded[i].url

C14_Step == files \subseteq files'

C14_CollisionSafe == [](C14_State) /\ [][C14_Step]_vars

C14_SameNameTwice ==
  \E i, j \in 1..Len(downloaded) :
    /\ i < j
    /\ downloaded[i].path.sha = NoUrl
    /\ downloaded[j].path = [downloaded[i].path EXCEPT !.sha = downloaded[j].url]

\* C20: a page whose only PDF reference is a plain anchor to a valid PDF, with
\* no allow-list, yields exactly one record: method direct, source_page that
\* page, filename the basename of the URL path.
OnlyPlainAnchor(sp, d) ==
  /\ _extract_onclick_pdfs(sp) = <<>>
  /\ _extract_watermark_hrefs(sp) = <<>>
  /\ _extract_regular_pdf_links(sp) = <<d>>

C20_Step ==
  \A d \in hrefs :
    ( /\ pc = "direct" /\ allowed = {} /\ OnlyPlainAnchor(soup, d)
      /\ d \notin downloaded_urls /\ ~Exists(files, BaseName(d))
      /\ last_call'.method = "direct" /\ GoodResponse(last_call'.response) )
    => /\ Len(downloaded') = Len(downloaded) + 1
       /\ SubSeq(downloaded', 1, Len(downloaded)) = downloaded
       /\ LET r == downloaded'[Len(downloaded')]
          IN /\ r.url = d
             /\ r.method = "direct"
             /\ r.source_page = current_url
             /\ r.filename = FileName(d.base, d.ext)
             /\ r.path = r.filename
       /\ pc' \notin Methods

StartsWithSignature(content) ==
  Len(content) >= 5 /\ \A k \in 1..5 : content[k] = PDF_SIG[k]

EofInLastBytes(content) ==
  \E i \in 1..(Len(content) - 4) :
    /\ i > Len(content) - TailWindow
    /\ \A k \in 0..4 : content[i + k] = EOF_MARK[k + 1]

C15_ValidIffSignatureAndEof ==
  unit.fn = "_is_valid_pdf" =>
    /\ unit.result <=> (StartsWithSignature(unit.arg) /\ EofInLastBytes(unit.arg))
    /\ Len(unit.arg) < 5 => ~unit.result

C15_EofOutsideLastBytes ==
  /\ unit.fn = "_is_valid_pdf"
  /\ StartsWithSignature(unit.arg)
  /\ Find(unit.arg, EOF_MARK) # -1
  /\ Len(unit.arg) > TailWindow
  /\ ~unit.result

\* C16: _extract_pdf_from_response returns the suffix of the payload that
\* starts at the first occurrence of '%PDF-', and None if and only if the
\* signature does not occur.
SignatureAt(content) ==
  {i \in 1..(Len(content) - 4) : \A k \in 0..4 : content[i + k] = PDF_SIG[k + 1]}

C16_SuffixFromFirstSignature ==
  unit.fn = "_extract_pdf_from_response" =>
    LET at == SignatureAt(unit.arg)
    IN /\ (unit.result = NoBytes) <=> (at = {})
       /\ at # {} =>
            \E i \in at :
              /\ \A j \in at : i <= j
              /\ unit.result = SubSeq(unit.arg, i, Len(unit.arg))
              /\ StartsWithSignature(unit.result)

C16_DebugTextDiscarded ==
  /\ unit.fn = "_extract_pdf_from_response"
  /\ Cardinality(SignatureAt(unit.arg)) >= 2
  /\ ~StartsWithSignature(unit.arg)
  /\ unit.result # NoBytes

\* C17: _extract_pdf_from_response applied to bytes it returned returns the
\* same bytes.
C17_ExtractIdempotent ==
  unit.fn = "_extract_pdf_from_response twice" => unit.result = unit.first

C17_ExtractedTwice ==
  /\ unit.fn = "_extract_pdf_from_response twice"
  /\ unit.first # unit.arg
  /\ Len(unit.first) > 5

\* C18: for every name, _sanitize_filename returns a string that ends in
\* exactly one '.pdf' suffix, has no forbidden character and no control
\* character, and is at most 204 characters long.
C18_SanitizedName ==
  unit.fn = "_sanitize_filename" =>
    LET r == unit.result
    IN /\ EndsWith(r, DOT_PDF)
       /\ ~EndsWith(SubSeq(r, 1, Len(r) - 4), DOT_PDF)
       /\ \A i \in 1..Len(r) : r[i] \notin Forbidden \cup Control
       /\ Len(r) <= NameLimit + 4

\* C19: for the onclick path p found on page s the downloader requests
\* {scheme of s}://{netloc of s}/watermark/download.php?show=E, where E holds
\* no '/' and is the percent-encoding of p without a leading 'pdf/' and a
\* trailing '.pdf'; 'pdf/Policy/Laptop.pdf' on https://example.mil/... gives
\* https://example.mil/watermark/download.php?show=Policy%2FLaptop.
WithoutPdfParts(p) ==
  LET q == IF Len(p) >= 4 /\ \A k \in 1..4 : p[k] = PDF_SLASH[k]
             THEN [i \in 1..(Len(p) - 4) |-> p[i + 4]] ELSE p
  IN IF EndsWith(q, DOT_PDF) THEN [i \in 1..(Len(q) - 4) |-> q[i]] ELSE q

C19_OnclickFetchUrl ==
  unit.fn = "download_onclick_watermark" =>
    LET head == unit.base.scheme \o <<":", "/", "/">> \o unit.base.netloc \o SHOW_PATH
        url == unit.result
        E == SubSeq(url, Len(head) + 1, Len(url))
    IN /\ Len(url) >= Len(head)
       /\ SubSeq(url, 1, Len(head)) = head
       /\ \A i \in 1..Len(E) : E[i] \notin {"/", " ", ":", "?"}
       /\ Unquote(E) = WithoutPdfParts(unit.arg)
       /\ unit.arg = POLICY_LAPTOP =>
            E = <<"P", "o", "l", "i", "c", "y", "%", "2", "F",
                  "L", "a", "p", "t", "o", "p">>

C19_PolicyLaptop ==
  /\ unit.fn = "download_onclick_watermark"
  /\ unit.arg = POLICY_LAPTOP
  /\ unit.base.scheme = <<"h", "t", "t", "p", "s">>
  /\ Len(unit.result) > Len(SHOW_PATH)


\* The rows of a run, in the order of their creation.
RowsOf(run) == SelectSeq(db.rows, LAMBDA row : row.run = run)

Returned == {q \in 1..Len(db.requests) : db.requests[q].outcome = "returned"}

\* C21: for every result the crawl handed to start_scraping and that the view
\* answered, the database holds exactly one CrawlRun row, with the page count
\* of the metadata and the number of records, and one DownloadedDocument row
\* per record with its url, source page, filename and method; a request whose
\* block raised left no row at all, and no row is there without its run.
C21_RunPersistedAtomically ==
  /\ Len(db.runs) = Cardinality(Returned)
  /\ \A k \in 1..Len(db.rows) : \E q \in Returned : db.requests[q].run = db.rows[k].run
  /\ \A q \in Returned :
       LET request == db.requests[q]
           run_rows == {k \in 1..Len(db.runs) : db.runs[k].id = request.run}
           rows == RowsOf(request.run)
       IN /\ Cardinality(run_rows) = 1
          /\ \A k \in run_rows :
               /\ Str(db.runs[k].pages_crawled) = request.pages_crawled
               /\ db.runs[k].pdfs_downloaded = Len(request.documents)
          /\ Len(rows) = Len(request.documents)
          /\ \A i \in 1..Len(rows) :
               /\ rows[i].pdf_url = request.documents[i].url
               /\ rows[i].source_page = request.documents[i].source_page
               /\ rows[i].filename = request.documents[i].filename
               /\ rows[i].download_method = request.documents[i].method

\* A request whose block raised after the run row and a document row were
\* created, then a request with two documents and twelve pages that returned.
C21_RolledBackThenPersisted ==
  /\ Len(db.requests) = 2
  /\ db.requests[1].outcome = "raised" /\ db.requests[1].created = 2
  /\ db.requests[2].outcome = "returned"
  /\ Len(db.requests[2].documents) = 2
  /\ db.requests[2].pages_crawled = Str(12)
  /\ Len(db.rows) = 2


\* A successful download has made len(downloaded) reach max_pdfs.
LimitReachedByDownload ==
  max_pdfs # NoLimit /\ downloaded # <<>> /\ Len(downloaded) >= max_pdfs

\* From there the only step left is the one that reports "Completed" and
\* returns: no downloader call, no write, no record, no append to and no
\* popleft from the queue.
C22_Step ==
  (LimitReachedByDownload /\ pc # "done") =>
    /\ pc' = "done"
    /\ last_call' = NoCall
    /\ files' = files /\ downloaded' = downloaded
    /\ enqueued' = enqueued /\ dequeued' = dequeued /\ queue' = queue

\* C22: once a successful download makes len(downloaded) reach max_pdfs, the
\* run stands at the head of the while loop with the flag set and all it does
\* is return: no downloader of a later extractor type is called for the page,
\* no link of the page is enqueued and no further page is dequeued.
C22_StopsAtPdfLimit ==
  /\ [](LimitReachedByDownload => (pc \in {"loop", "done"} /\ max_pdf_limit_hit))
  /\ [][C22_Step]_vars

\* The run returned at the limit, right after an onclick download, with a page
\* still in the frontier.
C22_ReturnedWithFrontier ==
  /\ pc = "done" /\ max_pdf_limit_hit /\ max_pdfs = 1
  /\ queue # <<>>
  /\ downloaded[1].method = "onclick"

\* C23, as claimed: with a limit of at least one document, the run leaves the
\* for-loop of an extractor type only after the last reference of its list,
\* also when the limit is reached in the middle of the list.
C23_BatchFinished ==
  [][(max_pdfs >= 1 /\ pc \in Methods /\ pc' # pc) => idx = Len(Refs(pc, soup))]_vars

\* C24: the frontier is first in, first out: the pages taken from the queue are,
\* in order, the first of those appended to it, the queue holds the rest in the
\* order of their appending, and so the pages are taken in non-decreasing link
\* distance from the start URL.
C24_BreadthFirst ==
  /\ Len(dequeued) <= Len(enqueued)
  /\ dequeued = SubSeq(enqueued, 1, Len(dequeued))
  /\ queue = SubSeq(enqueued, Len(dequeued) + 1, Len(enqueued))
  /\ Len(depth) = Len(enqueued)
  /\ \A i, j \in 1..Len(dequeued) : i < j => depth[i] <= depth[j]

\* Two pages were waiting in the queue, found in the order P2, P1 on the start
\* page, and were taken in that order.
C24_TwoWaiting ==
  /\ dequeued = <<StartUrl, P2, P1>>
  /\ depth = <<0, 1, 1>>

\* Where the processing of a page stands, in the order of the code.
Stage(p) ==
  IF p = "fetch" THEN 0
  ELSE IF p = "onclick" THEN 1
  ELSE IF p = "watermark_href" THEN 2
  ELSE IF p = "direct" THEN 3
  ELSE IF p = "links" THEN 4
  ELSE 5

C25_Step ==
  \* a downloader is called only in the loop of its method, for the page taken last
  /\ last_call' # NoCall =>
       /\ pc = last_call'.method
       /\ last_call'.page = current_url
       /\ current_url = dequeued[Len(dequeued)]
  \* the loops follow each other: onclick, watermark href, direct, link scan
  /\ pc \in {"fetch", "onclick", "watermark_href", "direct", "links"} =>
       Stage(pc') >= Stage(pc)
  \* links are appended only in the link scan, and the next page is taken only
  \* when the page is done with
  /\ enqueued' # enqueued => pc = "links"
  /\ dequeued' # dequeued => (pc = "loop" /\ pc' \in {"fetch", "loop"})

\* C25: within a page every onclick attempt comes before every watermark-href
\* attempt, which comes before every direct attempt; and the attempts and the
\* link appends of a page all come before the next page is taken.
C25_OrderWithinPage == [][C25_Step]_vars

\* On page P1 an onclick, a watermark-href and a direct download succeeded, in
\* this order, and then the next page was taken.
C25_ThreeMethodsThenNextPage ==
  /\ dequeued = <<StartUrl, P1, P2>>
  /\ Len(downloaded) = 3
  /\ \A i \in 1..3 : downloaded[i].source_page = P1
  /\ downloaded[1].method = "onclick"
  /\ downloaded[2].method = "watermark_href"
  /\ downloaded[3].method = "direct"

\* The page fetch of the latest step failed after all attempts, or returned a
\* Content-Type that is not text, HTML or XML, or a body that did not parse.
FetchDropped(f) ==
  f # NoPageFetch /\ (f.status # 200 \/ ~_is_html_response(f) \/ ~f.parses)

C26_Step ==
  \* the step that drops the page calls no downloader and appends no link; the
  \* page stays visited and counted
  /\ (page_fetch' # NoPageFetch /\ FetchDropped(page_fetch')) =>
       /\ pc' = "loop"
       /\ last_call' = NoCall
       /\ UNCHANGED <<visited, pages_crawled, queue, enqueued, downloaded,
                      downloaded_urls, files>>
  \* and the loop goes on with the next frontier item, or returns
  /\ FetchDropped(page_fetch) =>
       /\ last_call' = NoCall /\ enqueued' = enqueued
       /\ IF LoopExits THEN pc' = "done"
          ELSE dequeued' = Append(dequeued, Head(queue)) /\ queue' = Tail(queue)

\* C26: a page whose fetch fails, or whose Content-Type is not text / HTML /
\* XML, or that does not parse, gets no downloader call and no link appended;
\* it stays in visited and counts in pages_crawled (so toward max_pages), and
\* the loop goes on with the next frontier item.
C26_DroppedPageSkipped ==
  /\ [](FetchDropped(page_fetch) =>
          /\ pc = "loop"
          /\ page_fetch.url = current_url /\ current_url \in visited
          /\ pages_crawled = Cardinality(visited))
  /\ [][C26_Step]_vars

\* The second page came back as application/pdf and was dropped, counted, with
\* another page waiting in the frontier.
C26_NonHtmlPageDropped ==
  /\ page_fetch.status = 200 /\ page_fetch.ctype = "application/pdf"
  /\ pc = "loop" /\ pages_crawled = 2
  /\ queue # <<>> /\ ~LoopExits

\* C27, as claimed: the link scan never appends to the queue a link that the
\* watermark-href extractor or the direct-link extractor reported on the page.
C27_PdfLinksNotCrawled ==
  [][\A i \in (Len(enqueued) + 1)..Len(enqueued') :
       enqueued'[i] \notin Range(_extract_watermark_hrefs(soup))
                            \cup Range(_extract_regular_pdf_links(soup))]_vars

\* metadata = {"pages_crawled": str(pages_crawled), ...}, as returned.
metadata == [pages_crawled |-> Str(pages_crawled)]

\* C28: pages_crawled is the size of the visited set in every state; when the
\* run has returned, the page count of the metadata and the counts of the
\* Completed event are the number of URLs taken from the queue and processed
\* and the length of the returned list.
C28_AccurateCounts ==
  /\ pages_crawled = Cardinality(visited)
  /\ pc = "done" =>
       /\ visited = Range(dequeued)
       /\ _safe_int(metadata.pages_crawled, 0) = Len(dequeued)
       /\ events.last = [state |-> "Completed", pages_crawled |-> Len(dequeued),
                         downloaded |-> Len(downloaded)]
       /\ events.completed = 1

\* A run that returned after three pages and two documents, with failures on
\* the way.
C28_ThreePagesTwoDocuments ==
  /\ pc = "done" /\ trouble
  /\ Len(dequeued) = 3 /\ Len(downloaded) = 2
  /\ metadata.pages_crawled = <<"3">>

\* C29: the queue never holds a URL twice nor a visited URL, so every popleft
\* yields an unvisited URL: the `continue` after `if current_url in visited`
\* is never taken, and each popleft marks and counts a page.
C29_QueueFresh ==
  /\ [](NoDuplicates(queue) /\ Range(queue) \cap visited = {})
  /\ [][dequeued' # dequeued =>
          /\ Head(queue) \notin visited
          /\ pc' = "fetch"
          /\ visited' = visited \cup {Head(queue)}
          /\ pages_crawled' = pages_crawled + 1]_vars

\* The link scan of a page meets a link to a visited page and a link to a
\* page that is waiting in the queue.
C29_VisitedAndQueuedSeenAgain ==
  /\ pc = "links" /\ queue # <<>>
  /\ \E i, j \in 1..Len(soup.anchors) :
       /\ IsCrawlable(soup.anchors[i]) /\ soup.anchors[i] \in visited
       /\ IsCrawlable(soup.anchors[j]) /\ soup.anchors[j] \in Range(queue)

C30_Step ==
  \* a reference already in the set is never passed to a downloader
  /\ last_call' # NoCall => last_call'.ref \notin downloaded_urls
  \* a failed download adds nothing
  /\ (last_call' # NoCall /\ last_call'.outcome.info = NoInfo) =>
       downloaded_urls' = downloaded_urls
  \* a reference that is not in the set is passed to its downloader each time
  \* a loop comes to it (the direct loop tests the allow-list first)
  /\ (/\ pc \in Methods
      /\ Refs(pc, soup)[idx] \notin downloaded_urls
      /\ ~(pc = "direct" /\ allowed # {} /\ ~_is_allowed_host(Refs(pc, soup)[idx], allowed))) =>
       /\ last_call'.method = pc
       /\ last_call'.ref = Refs(pc, soup)[idx]

\* C30: downloaded_urls is the set of the reference keys (`url`) of the records
\* in the result list; a reference enters it only with a successful download,
\* one whose download failed is tried again when a loop meets it again, and one
\* that is in the set is never passed to a downloader again.
C30_DownloadedSetIsRecordKeys ==
  /\ [](/\ downloaded_urls = {downloaded[i].url : i \in 1..Len(downloaded)}
        /\ Cardinality(downloaded_urls) = Len(downloaded))
  /\ [][C30_Step]_vars

\* The page lists getpdf.pdf only, which is a watermark href and a direct link
\* at once: the watermark download of it failed, so the direct loop passed the
\* same reference to its downloader, which succeeded.
C30_FailedReferenceTriedAgain ==
  /\ soup.onclicks = <<>> /\ soup.anchors = <<W4>>
  /\ last_call.method = "direct" /\ last_call.ref = W4
  /\ Len(downloaded) = 1 /\ downloaded[1].method = "direct"
  /\ downloaded_urls = {W4}

\* C31, as claimed: with an allow-list, every request of the run other than the
\* fetch of the start URL goes to a host of the allow-list: the page fetches
\* and the GETs of the three downloaders.
C31_RequestsOnAllowedHosts ==
  allowed # {} =>
    /\ (page_fetch # NoPageFetch /\ page_fetch.url # start_url) =>
         InAllowList(page_fetch.url)
    /\ last_call.outcome.requested => InAllowList(last_call.outcome.request_url)

\* C32, as claimed: over any sequence of downloader calls on one folder, as
\* successive runs make them, no call writes to a path that was in the folder
\* when the call began.
C32_NeverOverwrites ==
  last_call.outcome.wrote # NoPath => ~Exists(last_call.folder, last_call.outcome.wrote)

\* C33, as claimed: when two invocations run at once on the same download
\* folder, no interleaving lets both write the same path: neither writes a
\* path for its reference that the other wrote for another reference, and
\* neither overwrites a file the other has written.
C33_NoSharedPath ==
  \A p, q \in Procs :
    (p # q /\ procs[p].wrote # NoPath /\ procs[q].wrote # NoPath) =>
      procs[p].wrote # procs[q].wrote

============================================================================
